---- MODULE Spec2Model ----
(***************************************************************************)
(* A model of src/app.py: the streaming chat front-end.                    *)
(*                                                                         *)
(*   - texts are sequences of characters, so that the regular expression   *)
(*     of extract_thinking_and_response is modelled at the level it works  *)
(*     on (markers can be split, joined and overlapped); a character is    *)
(*     the string that holds it, or the string "U+" and its code point in  *)
(*     hexadecimal where a TLA+ string cannot hold it;                     *)
(*   - a JSON object of the stream is a record with one presence flag per  *)
(*     key the program reads;                                              *)
(*   - a Python float is an IEEE-754 binary64 value: a mantissa of at most *)
(*     53 bits and a binary exponent, rounded as the hardware rounds.      *)
(***************************************************************************)
EXTENDS Integers, Sequences, FiniteSets, TLC

(***************************************************************************)
(* Texts                                                                   *)
(***************************************************************************)

\* The markers of the pattern r'<think>(.*?)</think>' (app.py line 22).
OpenMarker == << "<", "t", "h", "i", "n", "k", ">" >>
CloseMarker == << "<", "/", "t", "h", "i", "n", "k", ">" >>

\* Python's None, as the thinking part of the result: a value that is no
\* text (no character of a text is written "None").
None == << "None" >>

\* The characters str.strip() removes: every character for which str.isspace
\* holds. These are the characters Unicode gives the bidirectional type WS, B
\* or S, or the category Zs: tab, line feed, vertical tab, form feed, carriage
\* return, the four separators U+001C to U+001F, the space, next line,
\* no-break space, ogham space mark, the spaces U+2000 to U+200A, line and
\* paragraph separator, narrow no-break space, medium mathematical space and
\* ideographic space, in the order of their code points (29 characters; those
\* up to U+1680 are written as themselves).
Whitespace ==
    { "\t", "\n", "", "\f", "\r",
      "", "", "", "", " ",
      "", " ", " ",
      "U+2000", "U+2001", "U+2002", "U+2003", "U+2004", "U+2005",
      "U+2006", "U+2007", "U+2008", "U+2009", "U+200A",
      "U+2028", "U+2029", "U+202F", "U+205F", "U+3000" }

\* text[i:] has prefix m (1-based i).
HasAt(text, i, m) ==
    /\ i >= 1
    /\ i + Len(m) - 1 <= Len(text)
    /\ SubSeq(text, i, i + Len(m) - 1) = m

\* The positions at which the pattern can match when tried at i: the opening
\* marker at i and a closing marker somewhere after it ((.*?) with re.DOTALL
\* matches any characters, line breaks included).
ClosersAfter(text, i) ==
    { j \in (i + Len(OpenMarker))..Len(text) : HasAt(text, j, CloseMarker) }

MatchesAt(text, i) == HasAt(text, i, OpenMarker) /\ ClosersAfter(text, i) # {}

Min(S) == CHOOSE x \in S : \A y \in S : x <= y

\* The non-greedy match: the closing marker is the first one after the opening.
LazyCloser(text, i) == Min(ClosersAfter(text, i))

\* re.search from position pos: the leftmost match at or after pos, as
\* [found, start, closer]: start is the index of the opening marker, closer
\* the index of the closing marker the non-greedy group stops at.
ReSearch(text, pos) ==
    LET starts == { i \in pos..Len(text) : MatchesAt(text, i) }
    IN  IF starts = {}
        THEN [found |-> FALSE, start |-> 0, closer |-> 0]
        ELSE LET s == Min(starts)
             IN  [found |-> TRUE, start |-> s, closer |-> LazyCloser(text, s)]

\* re.sub(pattern, '', text): every non-overlapping match, leftmost first,
\* is removed; the scan resumes right after each match.
RECURSIVE ReSubFrom(_, _)
ReSubFrom(text, pos) ==
    LET m == ReSearch(text, pos)
    IN  IF ~m.found
        THEN SubSeq(text, pos, Len(text))
        ELSE SubSeq(text, pos, m.start - 1)
             \o ReSubFrom(text, m.closer + Len(CloseMarker))

\* As ReSub, had the substitution been limited to one match (count=1).
ReSubFirstOnly(text) ==
    LET m == ReSearch(text, 1)
    IN  IF ~m.found
        THEN text
        ELSE SubSeq(text, 1, m.start - 1)
             \o SubSeq(text, m.closer + Len(CloseMarker), Len(text))

ReSub(text) == ReSubFrom(text, 1)

\* str.strip(): leading and trailing whitespace removed.
RECURSIVE LStrip(_)
LStrip(s) ==
    IF s # << >> /\ Head(s) \in Whitespace THEN LStrip(Tail(s)) ELSE s

RECURSIVE RStrip(_)
RStrip(s) ==
    IF s # << >> /\ s[Len(s)] \in Whitespace
    THEN RStrip(SubSeq(s, 1, Len(s) - 1))
    ELSE s

Strip(s) == RStrip(LStrip(s))

\* As extract_thinking_and_response, had the text without a match been
\* stripped like the text with one.
extract_stripping_always(text) ==
    LET think_match == ReSearch(text, 1)
    IN  IF think_match.found
        THEN [thinking |-> Strip(SubSeq(text,
                                        think_match.start + Len(OpenMarker),
                                        think_match.closer - 1)),
              response |-> Strip(ReSub(text))]
        ELSE [thinking |-> None, response |-> Strip(text)]

\* extract_thinking_and_response(text) -> (thinking, response)
extract_thinking_and_response(text) ==
    LET think_match == ReSearch(text, 1)
    IN  IF think_match.found
        THEN [thinking |-> Strip(SubSeq(text,
                                        think_match.start + Len(OpenMarker),
                                        think_match.closer - 1)),
              response |-> Strip(ReSub(text))]
        ELSE [thinking |-> None, response |-> text]

\* Python truthiness of an optional text: neither None nor "".
Truthy(t) == t # None /\ t # << >>

(***************************************************************************)
(* Python floats (IEEE-754 binary64, round to nearest, ties to even)       *)
(*                                                                         *)
(* A natural number is a sequence of bits, least significant first, with   *)
(* no zero at its top (so 0 is << >>).  A non-negative float is            *)
(* [m |-> odd natural, e |-> exponent], of value m * 2^e, and zero is      *)
(* [m |-> << >>, e |-> 0]: every value has one representation.  The values *)
(* the program computes stay far inside the normal range of binary64, so   *)
(* neither overflow nor gradual underflow is modelled.                     *)
(***************************************************************************)

\* The precision of a Python float, in bits (sys.float_info.mant_dig).
MantDig == 53

\* The token counts drawn are below 2^IntBits: the bits of an int are read
\* off below this width.
IntBits == 31

\* The index of the highest 1 among b[lo..hi], or 0: the upper half first.
RECURSIVE TopBit(_, _, _)
TopBit(b, lo, hi) ==
    IF lo > hi THEN 0
    ELSE IF lo = hi THEN (IF b[lo] = 1 THEN lo ELSE 0)
    ELSE LET mid == (lo + hi) \div 2
             h == TopBit(b, mid + 1, hi)
         IN  IF h # 0 THEN h ELSE TopBit(b, lo, mid)

\* The index of the lowest 1 among b[lo..hi], or 0.
RECURSIVE LowBit(_, _, _)
LowBit(b, lo, hi) ==
    IF lo > hi THEN 0
    ELSE IF lo = hi THEN (IF b[lo] = 1 THEN lo ELSE 0)
    ELSE LET mid == (lo + hi) \div 2
             l == LowBit(b, lo, mid)
         IN  IF l # 0 THEN l ELSE LowBit(b, mid + 1, hi)

\* Drop the zeros at the top of a bit sequence.
Canon(b) == SubSeq(b, 1, TopBit(b, 1, Len(b)))

BitsOf(n) == Canon([i \in 1..IntBits |-> (n \div 2^(i - 1)) % 2])

\* y, once x has its value.  A definition is evaluated where it is first used:
\* a chain of carries first used at its far end would be unwound from there,
\* as deep as the chain is long.
After(x, y) == IF x = x THEN y ELSE y

BitAt(b, i) == IF i <= Len(b) THEN b[i] ELSE 0

\* Bits lo..hi of a + b + c, and the carry out of bit hi: the recursion halves
\* the range, the carry runs from the lower half into the upper.
RECURSIVE AddRange(_, _, _, _, _)
AddRange(a, b, lo, hi, c) ==
    IF lo = hi
    THEN LET v == BitAt(a, lo) + BitAt(b, lo) + c
         IN  [bits |-> << v % 2 >>, carry |-> v \div 2]
    ELSE LET mid == (lo + hi) \div 2
             low == AddRange(a, b, lo, mid, c)
             high == AddRange(a, b, mid + 1, hi, low.carry)
         IN  After(low, [bits |-> low.bits \o high.bits, carry |-> high.carry])

AddBits(a, b) ==
    LET n == IF Len(a) > Len(b) THEN Len(a) ELSE Len(b)
    IN  IF n = 0 THEN << >>
        ELSE LET s == AddRange(a, b, 1, n, 0)
             IN  IF s.carry = 1 THEN s.bits \o << 1 >> ELSE s.bits

\* Bits lo..hi of a - b - borrow, and the borrow out of bit hi.
RECURSIVE SubRange(_, _, _, _, _)
SubRange(a, b, lo, hi, borrow) ==
    IF lo = hi
    THEN LET v == BitAt(a, lo) - BitAt(b, lo) - borrow
         IN  [bits |-> << v % 2 >>, carry |-> IF v < 0 THEN 1 ELSE 0]
    ELSE LET mid == (lo + hi) \div 2
             low == SubRange(a, b, lo, mid, borrow)
             high == SubRange(a, b, mid + 1, hi, low.carry)
         IN  After(low, [bits |-> low.bits \o high.bits, carry |-> high.carry])

\* a - b for a >= b.
SubBits(a, b) ==
    IF a = << >> THEN << >> ELSE Canon(SubRange(a, b, 1, Len(a), 0).bits)

\* a >= b on bits lo..hi of two sequences of one length: the upper half decides
\* unless it is equal.
RECURSIVE GeqRange(_, _, _, _)
GeqRange(a, b, lo, hi) ==
    IF lo > hi THEN TRUE
    ELSE IF lo = hi THEN a[lo] >= b[lo]
    ELSE LET mid == (lo + hi) \div 2
         IN  IF SubSeq(a, mid + 1, hi) = SubSeq(b, mid + 1, hi)
             THEN GeqRange(a, b, lo, mid)
             ELSE GeqRange(a, b, mid + 1, hi)

GeqBits(a, b) ==
    IF Len(a) # Len(b) THEN Len(a) > Len(b) ELSE GeqRange(a, b, 1, Len(a))

\* The exact product: the sum, over the 1 bits b[i] of b, of a shifted by i - 1.
RECURSIVE MulRange(_, _, _, _)
MulRange(a, b, lo, hi) ==
    IF lo = hi
    THEN (IF b[lo] = 1 THEN [i \in 1..(lo - 1) |-> 0] \o a ELSE << >>)
    ELSE LET mid == (lo + hi) \div 2
         IN  AddBits(MulRange(a, b, lo, mid), MulRange(a, b, mid + 1, hi))

MulBits(a, b) ==
    IF a = << >> \/ b = << >> THEN << >> ELSE MulRange(a, b, 1, Len(b))

\* Long division over bits hi down to lo of the dividend n, r being the
\* remainder left by the bits above hi: [q, r], q the quotient bits lo..hi.
RECURSIVE DivRange(_, _, _, _, _)
DivRange(n, d, lo, hi, r) ==
    IF lo = hi
    THEN LET r2 == IF r = << >> /\ n[lo] = 0 THEN << >> ELSE << n[lo] >> \o r
         IN  IF GeqBits(r2, d)
             THEN [q |-> << 1 >>, r |-> SubBits(r2, d)]
             ELSE [q |-> << 0 >>, r |-> r2]
    ELSE LET mid == (lo + hi) \div 2
             high == DivRange(n, d, mid + 1, hi, r)
             low == DivRange(n, d, lo, mid, high.r)
         IN  After(high, [q |-> low.q \o high.q, r |-> low.r])

\* [q, r] with n = q*d + r and r < d, for d > 0.
DivModBits(n, d) ==
    IF n = << >>
    THEN [q |-> << >>, r |-> << >>]
    ELSE LET dm == DivRange(n, d, 1, Len(n), << >>)
         IN  [q |-> Canon(dm.q), r |-> dm.r]

Zeros(k) == [i \in 1..k |-> 0]

FloatZero == [m |-> << >>, e |-> 0]

\* m * 2^e with the zeros at the bottom of m moved into the exponent.
Normalize(bits, e) ==
    LET l == LowBit(bits, 1, Len(bits))
    IN  IF l = 0 THEN FloatZero
        ELSE [m |-> SubSeq(bits, l, Len(bits)), e |-> e + l - 1]

\* The float nearest to (bits + f) * 2^e, where 0 <= f < 1 and sticky says
\* whether f > 0: round to nearest, ties to even, to MantDig bits.
RoundToFloat(bits, e, sticky) ==
    IF Len(bits) <= MantDig
    THEN Normalize(bits, e)
    ELSE LET d == Len(bits) - MantDig
             kept == SubSeq(bits, d + 1, Len(bits))
             guard == bits[d]
             rest == sticky \/ \E i \in 1..(d - 1) : bits[i] = 1
             up == guard = 1 /\ (rest \/ kept[1] = 1)
         IN  Normalize(IF up THEN AddBits(kept, << 1 >>) ELSE kept, e + d)

\* float(n) for an int n >= 0 (exact below 2^53).
IntToFloat(n) == Normalize(BitsOf(n), 0)

\* x * y
FloatMul(x, y) == RoundToFloat(MulBits(x.m, y.m), x.e + y.e, FALSE)

\* x / y for y > 0: the quotient of the mantissas is computed to at least
\* MantDig + 2 bits, the remainder is the sticky bit.
FloatDiv(x, y) ==
    IF x.m = << >> THEN FloatZero
    ELSE LET want == MantDig + 2 + Len(y.m) - Len(x.m)
             k == IF want > 0 THEN want ELSE 0
             dm == DivModBits(Zeros(k) \o x.m, y.m)
         IN  RoundToFloat(dm.q, x.e - y.e - k, dm.r # << >>)

\* a <= b for two mantissas whose top bits have one weight: the shorter is
\* padded with zeros at the bottom.
LeqAligned(a, b) ==
    LET n == IF Len(a) > Len(b) THEN Len(a) ELSE Len(b)
    IN  GeqBits([i \in 1..(n - Len(b)) |-> 0] \o b,
                [i \in 1..(n - Len(a)) |-> 0] \o a)

\* x <= y for non-negative floats: by magnitude, then by mantissa.
FloatLeq(x, y) ==
    IF x.m = << >> THEN TRUE
    ELSE IF y.m = << >> THEN FALSE
    ELSE IF x.e + Len(x.m) # y.e + Len(y.m) THEN x.e + Len(x.m) < y.e + Len(y.m)
    ELSE LeqAligned(x.m, y.m)

(***************************************************************************)
(* Usage accounting                                                        *)
(***************************************************************************)

\* power_watts = 35
power_watts == 35

\* runtime_per_token = 0.02: the literal is the float nearest to 2/100, which
\* is what the correctly rounded quotient of the exact floats 2 and 100 is.
runtime_per_token == FloatDiv(IntToFloat(2), IntToFloat(100))

\* The literal 1e9 (exact).
Giga == 1000000000

\* As calculate_energy_consumption, had the power been left out of the product.
calculate_energy_without_power(num_tokens) ==
    LET total_runtime == FloatMul(runtime_per_token, IntToFloat(num_tokens))
    IN  FloatDiv(total_runtime, IntToFloat(Giga))

\* calculate_energy_consumption(num_tokens) -> energy_gj
calculate_energy_consumption(num_tokens) ==
    LET total_runtime == FloatMul(runtime_per_token, IntToFloat(num_tokens))
        total_energy_joules == FloatMul(IntToFloat(power_watts), total_runtime)
    IN  FloatDiv(total_energy_joules, IntToFloat(Giga))


(***************************************************************************)
(* The stream: lines of the response body and the JSON objects they hold   *)
(***************************************************************************)

\* A decoded JSON object, as far as the program reads it: for each key a
\* presence flag and a value (the value of an absent key is a filler).
JsonObject(hasDone, done, hasResponse, response, hasCount, count, hasError) ==
    [hasDone |-> hasDone, done |-> done,
     hasResponse |-> hasResponse, response |-> response,
     hasCount |-> hasCount, prompt_eval_count |-> count,
     hasError |-> hasError]

\* The empty dict {} of line 52.
EmptyDict == JsonObject(FALSE, FALSE, FALSE, << >>, FALSE, 0, FALSE)

\* bool(d) for a dict: it has a key.
DictTruthy(d) == d.hasDone \/ d.hasResponse \/ d.hasCount \/ d.hasError

\* d.get("done"), read as a condition.
GetDone(d) == d.hasDone /\ d.done

\* d.get("response", "")
GetResponse(d) == IF d.hasResponse THEN d.response ELSE << >>

\* A line iter_lines() hands over: empty, text that is no JSON, JSON that is
\* no object (json.loads accepts it, .get fails on it), or a JSON object.
BlankLine == [kind |-> "blank", obj |-> EmptyDict]
MalformedLine == [kind |-> "malformed", obj |-> EmptyDict]
ScalarLine == [kind |-> "scalar", obj |-> EmptyDict]
ObjectLine(d) == [kind |-> "object", obj |-> d]

\* As get_ollama_response, had a line that does not decode been skipped.
get_ollama_response_skipping(line) ==
    IF line.kind # "object"
    THEN [raised |-> FALSE, yields |-> << >>]
    ELSE LET json_response == line.obj
         IN  IF GetDone(json_response)
             THEN [raised |-> FALSE, yields |-> << << << >>, json_response >> >>]
             ELSE [raised |-> FALSE,
                   yields |-> << << GetResponse(json_response), EmptyDict >> >>]

\* As get_ollama_response, had the terminal record been yielded together with
\* its response field.
get_ollama_response_terminal_text(line) ==
    IF line.kind = "blank"
    THEN [raised |-> FALSE, yields |-> << >>]
    ELSE IF line.kind # "object"
    THEN [raised |-> TRUE, yields |-> << >>]
    ELSE LET json_response == line.obj
         IN  IF GetDone(json_response)
             THEN [raised |-> FALSE,
                   yields |-> << << GetResponse(json_response), json_response >> >>]
             ELSE [raised |-> FALSE,
                   yields |-> << << GetResponse(json_response), EmptyDict >> >>]

\* One turn of the loop of get_ollama_response on one line (lines 44-52):
\* whether it raises, and the pairs (response_chunk, stats) it yields.
get_ollama_response(line) ==
    IF line.kind = "blank"
    THEN [raised |-> FALSE, yields |-> << >>]
    ELSE IF line.kind # "object"
    THEN [raised |-> TRUE, yields |-> << >>]
    ELSE LET json_response == line.obj
         IN  IF GetDone(json_response)
             THEN [raised |-> FALSE, yields |-> << << << >>, json_response >> >>]
             ELSE [raised |-> FALSE,
                   yields |-> << << GetResponse(json_response), EmptyDict >> >>]

\* As ShouldDisplayThinking, had thinking_displayed not been consulted.
ShouldDisplayUnguarded(thinking, thinking_displayed) == Truthy(thinking)

\* The condition of lines 184 and 198: if thinking and not thinking_displayed.
ShouldDisplayThinking(thinking, thinking_displayed) ==
    Truthy(thinking) /\ ~thinking_displayed

(***************************************************************************)
(* What the model draws                                                    *)
(***************************************************************************)

\* Lines the backend sends in one session, requests a session makes, pieces a
\* text is put together from, and the largest token count displayed.
MaxLines == 3
MaxRequests == 2
MaxPieces == 5
MaxTokenCount == 14

\* The user's prompt.
Prompts == { << "h", "i" >> }

\* Fragments of model output: a thinking block opened, closed, plain text,
\* and nothing.
Fragments ==
    { OpenMarker \o << "a" >>, CloseMarker, << "b" >>, << >> }

\* The objects of a response body: chunks with done false or absent, the
\* response absent or present; terminal records with and without the count.
ChunkObjects ==
    { JsonObject(TRUE, FALSE, TRUE, f, FALSE, 0, FALSE) : f \in Fragments }
    \cup { JsonObject(FALSE, FALSE, TRUE, << "b" >>, FALSE, 0, FALSE),
           JsonObject(TRUE, FALSE, FALSE, << >>, FALSE, 0, FALSE) }

TerminalObjects ==
    { JsonObject(TRUE, TRUE, FALSE, << >>, FALSE, 0, FALSE),
      JsonObject(TRUE, TRUE, TRUE, << >>, TRUE, 1, FALSE),
      JsonObject(TRUE, TRUE, TRUE, << "b" >>, TRUE, 2, FALSE) }

\* The body of an error answer: {"error": "..."}.
ErrorObject == JsonObject(FALSE, FALSE, FALSE, << >>, FALSE, 0, TRUE)

\* HTTP statuses the backend answers with.
StatusCodes == { 200, 404, 500 }

\* The lines a body can hold. The program reads the body whatever the status
\* is (no status is looked at between line 34 and line 44), so every line can
\* come with every status.
BodyLines ==
    { BlankLine, MalformedLine, ScalarLine }
    \cup { ObjectLine(d) :
              d \in ChunkObjects \cup TerminalObjects \cup { ErrorObject } }

\* The pieces of the texts extraction is applied to: whole markers, parts of
\* markers, a letter, a blank, a line feed and a carriage return.
Pieces ==
    { OpenMarker, CloseMarker, << "a" >>, << " " >>, << "\n" >>, << "\r" >>,
      << "<", "t", "h", "i" >>, << "n", "k", ">" >> }

TokenCounts == 0..MaxTokenCount

(***************************************************************************)
(* State                                                                   *)
(***************************************************************************)

VARIABLES
    messages,            \* st.session_state.messages
    total_tokens,        \* st.session_state.total_tokens
    pc,                  \* where the run of main() is
    status,              \* the HTTP status of the answer to the POST, 0: none
    full_response,       \* the accumulated text
    thinking_displayed,
    placeholder,         \* what message_placeholder shows
    expanders,           \* the thinking blocks rendered in this request
    received,            \* the lines of the body handed over in this request
    emitted,             \* the pairs get_ollama_response yielded in this request
    tokens_at_start,     \* total_tokens when the request was made
    requests,            \* requests made in the session
    lines,               \* lines the backend sent in the session
    xText, xOut,         \* a text and what extraction returns for it
    xPieces,             \* the pieces the text was put together from
    shown_tokens, shown_energy,   \* the sidebar: token count and energy
    prev_tokens, prev_energy      \* the sidebar as it was before

sessionVars ==
    << messages, total_tokens, pc, status, full_response, thinking_displayed,
       placeholder, expanders, received, emitted, tokens_at_start, requests,
       lines >>
extractVars == << xText, xOut, xPieces >>
energyVars == << shown_tokens, shown_energy, prev_tokens, prev_energy >>
vars == << sessionVars, extractVars, energyVars >>

\* message_placeholder: st.empty(), then write(text + cursor) or write(text).
EmptyPlaceholder == [text |-> << >>, cursor |-> FALSE]

\* init_session_state(), and the locals of main() before any request.
SessionInit ==
    /\ messages = << >>
    /\ total_tokens = 0
    /\ pc = "idle"
    /\ status = 0
    /\ full_response = << >>
    /\ thinking_displayed = FALSE
    /\ placeholder = EmptyPlaceholder
    /\ expanders = << >>
    /\ received = << >>
    /\ emitted = << >>
    /\ tokens_at_start = 0
    /\ requests = 0
    /\ lines = 0

ExtractInit ==
    /\ xText = << >>
    /\ xOut = extract_thinking_and_response(<< >>)
    /\ xPieces = 0

\* display_token_counter() of a fresh session (line 161).
EnergyInit ==
    /\ shown_tokens = 0
    /\ shown_energy = calculate_energy_consumption(0)
    /\ prev_tokens = 0
    /\ prev_energy = calculate_energy_consumption(0)

Init == SessionInit /\ ExtractInit /\ EnergyInit

(***************************************************************************)
(* The sidebar                                                             *)
(***************************************************************************)

\* calculate_energy_consumption over the totals the sidebar is drawn with.
energy_gj == [n \in TokenCounts |-> calculate_energy_consumption(n)]

\* Lines 69-90: display_token_counter() with st.session_state.total_tokens
\* = num_tokens draws the two metrics anew; what was drawn before is kept in
\* prev_tokens and prev_energy.
display_token_counter(num_tokens) ==
    /\ prev_tokens' = shown_tokens
    /\ prev_energy' = shown_energy
    /\ shown_tokens' = num_tokens
    /\ shown_energy' = IF num_tokens \in DOMAIN energy_gj
                       THEN energy_gj[num_tokens]
                       ELSE calculate_energy_consumption(num_tokens)

(***************************************************************************)
(* main(): one request                                                     *)
(***************************************************************************)

\* Lines 155-164 with no message: the script runs again (any interaction with
\* the page) and st.chat_input returns None: the sidebar is drawn with the
\* total of the session (line 161) and nothing else happens.
Rerun ==
    /\ pc \in { "idle", "failed" }
    /\ display_token_counter(total_tokens)
    /\ UNCHANGED << messages, total_tokens, pc, status, full_response,
                    thinking_displayed, placeholder, expanders, received,
                    emitted, tokens_at_start, requests, lines >>
    /\ UNCHANGED extractVars

\* Lines 155-173: the user sends a message and the script runs: the sidebar
\* is drawn with the total of the session (line 161), then the message is
\* taken. A failed run leaves the session usable, the script runs again on
\* the next message.
Submit(prompt) ==
    /\ pc \in { "idle", "failed" }
    /\ requests < MaxRequests
    /\ requests' = requests + 1
    /\ messages' = Append(messages, [role |-> "user", content |-> prompt])
    /\ full_response' = << >>
    /\ thinking_displayed' = FALSE
    /\ placeholder' = EmptyPlaceholder
    /\ expanders' = << >>
    /\ received' = << >>
    /\ emitted' = << >>
    /\ status' = 0
    /\ tokens_at_start' = total_tokens
    /\ pc' = "posting"
    /\ display_token_counter(total_tokens)
    /\ UNCHANGED << total_tokens, lines >>
    /\ UNCHANGED extractVars

\* Lines 34-42: requests.post cannot connect (or times out) and raises; the
\* exception leaves main().
PostRefused ==
    /\ pc = "posting"
    /\ pc' = "failed"
    /\ UNCHANGED << messages, total_tokens, status, full_response,
                    thinking_displayed, placeholder, expanders, received,
                    emitted, tokens_at_start, requests, lines >>
    /\ UNCHANGED << extractVars, energyVars >>

\* Lines 34-44: requests.post returns a response, whatever its status; the
\* status is not looked at.
PostAnswered(code) ==
    /\ pc = "posting"
    /\ status' = code
    /\ pc' = "streaming"
    /\ UNCHANGED << messages, total_tokens, full_response, thinking_displayed,
                    placeholder, expanders, received, emitted, tokens_at_start,
                    requests, lines >>
    /\ UNCHANGED << extractVars, energyVars >>

\* Lines 176-194: the body of the for loop of main() on one yielded pair.
LoopBody(response_chunk, stats) ==
    IF response_chunk # << >>
    THEN LET text == full_response \o response_chunk
             split == extract_thinking_and_response(text)
             show == ShouldDisplayThinking(split.thinking, thinking_displayed)
         IN  /\ full_response' = text
             /\ expanders' = IF show THEN Append(expanders, split.thinking)
                                     ELSE expanders
             /\ thinking_displayed' = (thinking_displayed \/ show)
             /\ placeholder' = [text |-> split.response, cursor |-> TRUE]
             /\ UNCHANGED << total_tokens, energyVars >>
    ELSE /\ IF DictTruthy(stats) /\ stats.hasCount
            THEN /\ total_tokens' = total_tokens + stats.prompt_eval_count
                 /\ display_token_counter(total_tokens')
            ELSE UNCHANGED << total_tokens, energyVars >>
         /\ UNCHANGED << full_response, expanders, thinking_displayed,
                         placeholder >>

\* Lines 44-52 and 176-194: the backend sends a line; the generator skips it,
\* raises on it (the exception leaves main()), or yields a pair, on which the
\* loop body runs.
ReceiveLine(line) ==
    /\ pc = "streaming"
    /\ lines < MaxLines
    /\ lines' = lines + 1
    /\ received' = Append(received, line)
    /\ LET turn == get_ollama_response(line)
       IN  IF turn.raised
           THEN /\ pc' = "failed"
                /\ UNCHANGED << emitted, total_tokens, full_response, expanders,
                                thinking_displayed, placeholder, energyVars >>
           ELSE IF turn.yields = << >>
           THEN UNCHANGED << pc, emitted, total_tokens, full_response,
                             expanders, thinking_displayed, placeholder,
                             energyVars >>
           ELSE /\ emitted' = emitted \o turn.yields
                /\ LoopBody(turn.yields[1][1], turn.yields[1][2])
                /\ UNCHANGED pc
    /\ UNCHANGED << messages, status, tokens_at_start, requests >>
    /\ UNCHANGED extractVars

\* Line 44: the connection breaks while the body is read; iter_lines raises.
StreamBroken ==
    /\ pc = "streaming"
    /\ pc' = "failed"
    /\ UNCHANGED << messages, total_tokens, status, full_response,
                    thinking_displayed, placeholder, expanders, received,
                    emitted, tokens_at_start, requests, lines >>
    /\ UNCHANGED << extractVars, energyVars >>

\* Lines 196-203: the body ends; the final update and the assistant message.
StreamEnd ==
    /\ pc = "streaming"
    /\ LET split == extract_thinking_and_response(full_response)
           show == ShouldDisplayThinking(split.thinking, thinking_displayed)
       IN  /\ expanders' = IF show THEN Append(expanders, split.thinking)
                                   ELSE expanders
           /\ placeholder' = [text |-> split.response, cursor |-> FALSE]
           /\ messages' = Append(messages, [role |-> "assistant",
                                            content |-> split.response])
    /\ pc' = "idle"
    /\ UNCHANGED << total_tokens, status, full_response, thinking_displayed,
                    received, emitted, tokens_at_start, requests, lines >>
    /\ UNCHANGED << extractVars, energyVars >>

Next ==
    \/ Rerun
    \/ \E prompt \in Prompts : Submit(prompt)
    \/ PostRefused
    \/ \E code \in StatusCodes : PostAnswered(code)
    \/ \E line \in BodyLines : ReceiveLine(line)
    \/ StreamBroken
    \/ StreamEnd

Spec == Init /\ [][Next]_vars

(***************************************************************************)
(* Extraction on its own: a text grows piece by piece, as the accumulated  *)
(* text does, and extraction is applied to every text it goes through.     *)
(***************************************************************************)

Feed(piece) ==
    /\ xPieces < MaxPieces
    /\ xPieces' = xPieces + 1
    /\ xText' = xText \o piece
    /\ xOut' = extract_thinking_and_response(xText')
    /\ UNCHANGED << sessionVars, energyVars >>

NextExtract == \E piece \in Pieces : Feed(piece)

SpecExtract == Init /\ [][NextExtract]_vars

(***************************************************************************)
(* The usage display on its own                                            *)
(***************************************************************************)

\* Lines 192-194 on their own: a terminal record brings a count, the count is
\* added to the total and the sidebar is redrawn.
AddCount(count) ==
    /\ total_tokens + count <= MaxTokenCount
    /\ total_tokens' = total_tokens + count
    /\ display_token_counter(total_tokens')
    /\ UNCHANGED << messages, pc, status, full_response, thinking_displayed,
                    placeholder, expanders, received, emitted, tokens_at_start,
                    requests, lines >>
    /\ UNCHANGED extractVars

NextEnergy == \E count \in TokenCounts : AddCount(count)

SpecEnergy == Init /\ [][NextEnergy]_vars

(***************************************************************************)
(* The properties                                                          *)
(***************************************************************************)

\* m occurs in text.
Contains(text, m) == \E i \in 1..Len(text) : HasAt(text, i, m)

HasMarker(text) == Contains(text, OpenMarker) \/ Contains(text, CloseMarker)

\* An opening marker followed later by a closing marker.
HasPair(text) ==
    \E i, j \in 1..Len(text) :
        i < j /\ HasAt(text, i, OpenMarker) /\ HasAt(text, j, CloseMarker)

\* The first opening marker, and the first closing marker after it.
FirstOpen(text) == Min({ i \in 1..Len(text) : HasAt(text, i, OpenMarker) })
FirstCloseAfter(text, i) ==
    Min({ j \in (i + 1)..Len(text) : HasAt(text, j, CloseMarker) })

\* The text with its first marker pair, and what is between, cut out.
WithoutFirstPair(text) ==
    LET o == FirstOpen(text)
        c == FirstCloseAfter(text, o)
    IN  SubSeq(text, 1, o - 1) \o SubSeq(text, c + Len(CloseMarker), Len(text))

\* The text read from position p on, left to right, every opening marker that
\* a closing marker follows being cut out with all up to the end of the first
\* closing marker after it.
RECURSIVE WithoutPairsFrom(_, _)
WithoutPairsFrom(text, p) ==
    IF p > Len(text) THEN << >>
    ELSE IF HasAt(text, p, OpenMarker)
            /\ \E j \in (p + 1)..Len(text) : HasAt(text, j, CloseMarker)
    THEN WithoutPairsFrom(text, FirstCloseAfter(text, p) + Len(CloseMarker))
    ELSE << text[p] >> \o WithoutPairsFrom(text, p + 1)

\* The pair the claims expect for a line holding a JSON object.
ExpectedPair(line) ==
    IF line.obj.hasDone /\ line.obj.done = TRUE
    THEN << << >>, line.obj >>
    ELSE << (IF line.obj.hasResponse THEN line.obj.response ELSE << >>),
            EmptyDict >>

\* The pairs expected for a sequence of lines, the empty lines left out.
ExpectedPairs(body) ==
    LET objects == SelectSeq(body, LAMBDA l : l.kind = "object")
    IN  [i \in 1..Len(objects) |-> ExpectedPair(objects[i])]

\* The fragments of a sequence of pairs, joined, and its counts, added up.
RECURSIVE JoinedFragments(_)
JoinedFragments(pairs) ==
    IF pairs = << >> THEN << >>
    ELSE pairs[1][1] \o JoinedFragments(Tail(pairs))

RECURSIVE SummedCounts(_)
SummedCounts(pairs) ==
    IF pairs = << >> THEN 0
    ELSE (IF pairs[1][2].hasCount THEN pairs[1][2].prompt_eval_count ELSE 0)
         + SummedCounts(Tail(pairs))

\* The evaluation count of the terminal chunk of a body: of its first line
\* with done true, 0 when there is none or it has no count.
TerminalCount(body) ==
    LET T == { i \in 1..Len(body) :
                 body[i].kind = "object" /\ GetDone(body[i].obj) }
    IN  IF T = {} THEN 0
        ELSE LET d == body[Min(T)].obj
             IN  IF d.hasCount THEN d.prompt_eval_count ELSE 0

\* C1: the visible text extraction returns for the accumulated text holds
\* neither marker, at any point of a request, and no assistant message of the
\* chat history does.
C1_VisibleHoldsNoMarker ==
    /\ ~HasMarker(extract_thinking_and_response(full_response).response)
    /\ \A i \in 1..Len(messages) :
          messages[i].role = "assistant" => ~HasMarker(messages[i].content)

\* C2, as claimed: for a text with an opening marker followed by a closing
\* one, thinking is the trimmed content between the first opening marker and
\* the first closing marker after it, and visible is the text with that one
\* pair cut out, trimmed: later pairs stay in visible.
C2_OnlyFirstPairRemoved ==
    HasPair(xText) =>
        LET o == FirstOpen(xText)
            c == FirstCloseAfter(xText, o)
        IN  /\ xOut.thinking = Strip(SubSeq(xText, o + Len(OpenMarker), c - 1))
            /\ xOut.response = Strip(WithoutFirstPair(xText))

\* C2, amended: thinking is as claimed, and visible is the text with every
\* marker pair cut out, trimmed: the pairs are those found reading the text
\* left to right, each opening marker that a closing marker follows going with
\* the first closing marker after it, and the reading resuming after it.
C2_EveryPairRemoved ==
    HasPair(xText) =>
        LET o == FirstOpen(xText)
            c == FirstCloseAfter(xText, o)
        IN  /\ xOut.thinking = Strip(SubSeq(xText, o + Len(OpenMarker), c - 1))
            /\ xOut.response = Strip(WithoutPairsFrom(xText, 1))

\* A text with a pair, thinking between its markers and an answer around it.
C2_Witness ==
    /\ HasPair(xText)
    /\ xOut.thinking = << "a" >>
    /\ xOut.response = << "a" >>
    /\ xText[Len(xText)] \in Whitespace

\* C3: for a text without an opening marker followed by a closing marker,
\* extraction returns None and the text as it is, whitespace kept; so thinking
\* is None on every prefix of a stream until the pair is complete.
C3_NoPairLeavesText ==
    ~HasPair(xText) => xOut = [thinking |-> None, response |-> xText]

\* A text that starts with whitespace and has an opening marker not closed.
C3_Witness ==
    /\ ~HasPair(xText)
    /\ Contains(xText, OpenMarker)
    /\ xText # << >> /\ xText[1] \in Whitespace
    /\ xOut.response = xText

\* C4: for a body of JSON-object lines the pairs yielded are, in the order of
\* the lines, (response or "", {}) for a line with done false or absent and
\* ("", the record) for a line with done true.
C4_PairsFollowLines ==
    (\A i \in 1..Len(received) : received[i].kind \in { "object", "blank" })
        => emitted = ExpectedPairs(received)

\* A body of a chunk with text, a chunk without a response field and a
\* terminal record with a count, all yielded.
C4_Witness ==
    /\ Len(emitted) = 3
    /\ emitted[1][1] # << >>
    /\ ~received[2].obj.hasResponse
    /\ emitted[3][2].hasCount

\* C5: once the pair of a line with done true has been yielded, no pair is
\* yielded after it in the request.
C5_NothingAfterTerminal ==
    \A i \in 1..Len(emitted) : DictTruthy(emitted[i][2]) => i = Len(emitted)

\* C6: a line that is no JSON is not skipped: it is the last line read, the run
\* has failed on it, and the pairs yielded, the accumulated text and the token
\* total are those of the lines before it; no assistant message follows.
C6_MalformedLineEndsRequest ==
    LET bad == { i \in 1..Len(received) : received[i].kind = "malformed" }
    IN  bad # {} =>
            /\ bad = { Len(received) }
            /\ pc = "failed"
            /\ emitted = ExpectedPairs(SubSeq(received, 1, Len(received) - 1))
            /\ full_response = JoinedFragments(emitted)
            /\ total_tokens = tokens_at_start + SummedCounts(emitted)
            /\ messages[Len(messages)].role = "user"

\* A line that is no JSON after a chunk with text.
C6_Witness ==
    /\ Len(received) >= 2
    /\ received[Len(received)].kind = "malformed"
    /\ full_response # << >>
    /\ pc = "failed"

\* C7: when a request has run to its end, the token total is its value at the
\* start of the request plus the count of the terminal chunk (nothing when the
\* chunk has none or there is no terminal chunk).
C7_TotalUpdatedOnce ==
    (pc = "idle" /\ requests > 0) =>
        total_tokens = tokens_at_start + TerminalCount(received)

\* A status of the 2xx class.
IsSuccess(code) == 200 <= code /\ code < 300

\* C8: a status outside 2xx ends the request in an error: no pair is yielded
\* from the body and the run does not go on to its end, where the assistant
\* message is made.
C8_ErrorStatusEndsRequest ==
    (status # 0 /\ ~IsSuccess(status)) => (emitted = << >> /\ pc # "idle")

\* C9: the energy does not decrease when the token count grows, is 0 for 0
\* tokens, and is tokens x 0.02 x 35 / 1e9, computed in that order.
C9_EnergyMonotoneAndExact ==
    /\ prev_tokens <= shown_tokens => FloatLeq(prev_energy, shown_energy)
    /\ shown_tokens <= prev_tokens => FloatLeq(shown_energy, prev_energy)
    /\ shown_tokens = 0 => shown_energy = FloatZero
    /\ shown_energy =
          FloatDiv(FloatMul(FloatMul(IntToFloat(shown_tokens),
                                     FloatDiv(IntToFloat(2), IntToFloat(100))),
                            IntToFloat(35)),
                   IntToFloat(1000000000))

\* The display after the count grew from one positive value to another.
C9_Witness ==
    /\ 0 < prev_tokens
    /\ prev_tokens < shown_tokens
    /\ shown_energy # prev_energy
    /\ FloatLeq(prev_energy, shown_energy)

\* C10: in a request the thinking block is rendered at most once, and what was
\* rendered is the thinking extraction returns for the accumulated text, then
\* and at every later point of the request.
C10_ThinkingRenderedOnce ==
    /\ Len(expanders) <= 1
    /\ expanders # << >> =>
          expanders[1] = extract_thinking_and_response(full_response).thinking

\* A finished request whose thinking block was rendered while text was still
\* to come.
C10_Witness ==
    /\ pc = "idle"
    /\ expanders = << << "a" >> >>
    /\ placeholder = [text |-> << "b" >>, cursor |-> FALSE]

====
